---- MODULE Spec2Model ----
(***************************************************************************)
(* FogSonification: the CSV-to-MIDI converter                              *)
(* (cleaned_to_midi_3ch_events.py) and the CSV cleanup script              *)
(* (csv_cleanup.py), as a state machine.  One behaviour is one invocation  *)
(* of one of the two scripts, optionally followed by a second invocation   *)
(* of the converter on the same file with another --duration or another    *)
(* verbosity.                                                              *)
(*                                                                         *)
(* Python floats are modelled as exact rationals <<numerator, denominator>>*)
(* (denominator > 0, lowest terms); int() truncates toward zero as in      *)
(* Python.  For the two-decimal values the cleanup step writes, the float  *)
(* and the exact quantisation agree.  The cleanup script's trigonometry is  *)
(* computed in fixed point (millionths) from a table of the cosine at       *)
(* one-minute steps of the 24-hour turn, accurate to 3 millionths.          *)
(***************************************************************************)
EXTENDS Integers, Sequences, FiniteSets, TLC

VARIABLES
    program,        \* which script runs: "midi" or "cleanup"
    args,           \* the parsed command line / call arguments
    csv_file,       \* the input file on disk (environment)
    pc,             \* position in the script
    error,          \* kind of the exception / parser error that ended the run
    df_loaded,      \* pd.read_csv has returned
    df,             \* rows of the loaded DataFrame
    cloud_data, solar_data, sunrise_events, sunset_events,
    duration,       \* local `duration` of create_3channel_midi_with_events
    beats_per_note, \* local `beats_per_note`
    current_beat,   \* local `current_beat`
    i,              \* loop index of `for i, row in df.iterrows()`
    midi_created,   \* MIDIFile(3) has been constructed
    track_meta,     \* per track: name, tempo, program
    tracks,         \* per track: the notes added with addNote, in order
    cloud_note_idx, solar_note_idx,  \* locals of the last loop iteration
    io,             \* what the file system did to this run's writes
    out_file,       \* the output MIDI file of this run: "absent", "partial", "complete"
    prev,           \* summary of the previous invocation, if any
    sine_values     \* cleanup: the solar_sine column, one value per processed row

vars == <<program, args, csv_file, pc, error, df_loaded, df, cloud_data, solar_data,
          sunrise_events, sunset_events, duration, beats_per_note, current_beat, i,
          midi_created, track_meta, tracks, cloud_note_idx, solar_note_idx, io,
          out_file, prev, sine_values>>

(***************************************************************************)
(* Bounds of the model                                                     *)
(***************************************************************************)
MaxLen == 2
ScenarioLen == 10

(***************************************************************************)
(* Rational arithmetic standing for Python's float arithmetic              *)
(***************************************************************************)
Abs(x) == IF x < 0 THEN -x ELSE x

RECURSIVE GCD(_, _)
GCD(a, b) == IF b = 0 THEN a ELSE GCD(b, a % b)

Rat(n, d) ==
    LET g == GCD(Abs(n), Abs(d))
        s == IF d < 0 THEN -1 ELSE 1
    IN  <<(s * n) \div g, (s * d) \div g>>

RInt(n) == <<n, 1>>
RAdd(a, b) == Rat(a[1] * b[2] + b[1] * a[2], a[2] * b[2])
RSub(a, b) == Rat(a[1] * b[2] - b[1] * a[2], a[2] * b[2])
RMul(a, b) == Rat(a[1] * b[1], a[2] * b[2])
RDiv(a, b) == Rat(a[1] * b[2], a[2] * b[1])
RLt(a, b) == a[1] * b[2] < b[1] * a[2]
RLe(a, b) == a[1] * b[2] <= b[1] * a[2]
RMax(a, b) == IF RLt(a, b) THEN b ELSE a
RMin(a, b) == IF RLt(b, a) THEN b ELSE a
Floor(a) == a[1] \div a[2]

\* Python int(x) of a float: truncation toward zero
PyInt(a) == IF a[1] >= 0 THEN a[1] \div a[2] ELSE -((-a[1]) \div a[2])

\* numpy.clip(x, lo, hi)
Clip(x, lo, hi) == RMin(RMax(x, lo), hi)

(***************************************************************************)
(* Cells of a CSV column: a value or a missing value (NaN)                 *)
(***************************************************************************)
Num(n, d) == [isna |-> FALSE, v |-> Rat(n, d)]
NaNum == [isna |-> TRUE, v |-> RInt(0)]
Flag(b) == [isna |-> FALSE, v |-> b]
NaFlag == [isna |-> TRUE, v |-> FALSE]

\* pandas Series.fillna(value)
FillNa(col, value) == [k \in 1..Len(col) |-> IF col[k].isna THEN value ELSE col[k].v]

Column(rows, name) == [k \in 1..Len(rows) |-> rows[k][name]]

(***************************************************************************)
(* The musical scales and the track settings                               *)
(***************************************************************************)
major_pentatonic == <<60, 62, 64, 67, 69, 72, 74, 76, 79, 81, 84, 86, 88>>
minor_pentatonic == <<48, 51, 53, 55, 58, 60, 63, 65, 67, 70, 72, 75, 77>>
harmonic_minor == <<36, 38, 39, 42, 44, 45, 48, 50, 51, 54, 56, 57, 60>>

TrackIds == 0..2

\* Python list indexing: a negative index counts from the end, anything
\* outside -len..len-1 raises IndexError
InRange(list, idx) == idx >= -Len(list) /\ idx < Len(list)
PyIndex(list, idx) == IF idx >= 0 THEN list[idx + 1] ELSE list[Len(list) + idx + 1]

(***************************************************************************)
(* Inputs: command lines and CSV files                                     *)
(***************************************************************************)
MinBpm == 60
MaxBpm == 240
MinDuration == 60
MaxDuration == 600

BpmArgs == {MinBpm - 1, MinBpm, MaxBpm, MaxBpm + 1}
DurationArgs == {MinDuration - 1, MinDuration, MaxDuration, MaxDuration + 1}

\* a run through main(): argparse yields integers for --bpm and --duration
MainArgs == [entry : {"main"}, bpm : BpmArgs, duration : DurationArgs,
             auto_duration : BOOLEAN, verbose : BOOLEAN]

\* a direct call of create_3channel_midi_with_events (no validation of its own)
CallArgs == [entry : {"call"}, bpm : {120}, duration : {5},
             auto_duration : BOOLEAN, verbose : {FALSE}]

required_cols == {"cloud_cover_low (%)", "solar_sine", "sunrise_event", "sunset_event"}

Row(c, s, r, t) == [cloud |-> c, solar |-> s, sunrise |-> r, sunset |-> t]

PlainRow == Row(Num(45, 1), Num(299, 100), Flag(FALSE), Flag(FALSE))

\* cloud cover and proxy in range, at the ends of their ranges, missing and out of
\* range; the two flags set, unset and missing
Rows ==
    {PlainRow,
     Row(NaNum, NaNum, NaFlag, NaFlag),
     Row(Num(0, 1), Num(6, 1), Flag(TRUE), Flag(FALSE)),
     Row(Num(100, 1), Num(0, 1), Flag(FALSE), Flag(TRUE)),
     Row(Num(130, 1), Num(-1, 1), Flag(TRUE), Flag(TRUE)),
     Row(Num(-20, 1), Num(15, 2), NaFlag, Flag(TRUE)),
     Row(Num(37, 2), Num(1, 2), Flag(TRUE), NaFlag)}

LongRows == {PlainRow, Row(Num(0, 1), Num(6, 1), Flag(TRUE), Flag(TRUE))}

File(cols, rows) == [known |-> TRUE, readable |-> TRUE, columns |-> cols, rows |-> rows]
UnreadableFile == [known |-> TRUE, readable |-> FALSE, columns |-> {}, rows |-> <<>>]
UnknownFile == [known |-> FALSE, readable |-> FALSE, columns |-> {}, rows |-> <<>>]

SeqsUpTo(S, n) == UNION {[1..k -> S] : k \in 0..n}

ShortFiles ==
    {File(required_cols, r) : r \in SeqsUpTo(Rows, MaxLen)}
    \cup {File(required_cols \ {c}, <<PlainRow>>) : c \in required_cols}
    \cup {File({}, <<PlainRow>>), UnreadableFile}

LongFiles == {File(required_cols, r) : r \in [1..ScenarioLen -> LongRows]}

FilesFor(a) == IF a.entry = "main" THEN ShortFiles ELSE LongFiles

(***************************************************************************)
(* create_3channel_midi_with_events: the computations                      *)
(***************************************************************************)
\* variant: the --duration check left out
ArgErrorBpmOnly(a) ==
    IF a.bpm < MinBpm \/ a.bpm > MaxBpm THEN "bpm" ELSE "none"

\* main(): the parser.error that rejects the command line, or "none"
ArgError(a) ==
    IF a.bpm < MinBpm \/ a.bpm > MaxBpm THEN "bpm"
    ELSE IF a.duration < MinDuration \/ a.duration > MaxDuration THEN "duration"
    ELSE "none"

\* variant: 'sunset_event' left out of the list of required columns
MissingColsThree(columns) ==
    {col \in required_cols \ {"sunset_event"} : col \notin columns}

\* missing_cols = [col for col in required_cols if col not in df.columns]
MissingCols(columns) == {col \in required_cols : col \notin columns}

\* variant: the inverted cloud cover is not clipped
NormalizeCloudNoClip(col) ==
    LET filled == FillNa(col, RInt(0))
    IN  [k \in 1..Len(col) |-> RSub(RInt(100), filled[k])]

\* cloud_data = np.clip(100 - df[...].fillna(0), 0, 100)
NormalizeCloud(col) ==
    LET filled == FillNa(col, RInt(0))
    IN  [k \in 1..Len(col) |-> Clip(RSub(RInt(100), filled[k]), RInt(0), RInt(100))]

\* variant: the proxy is not clipped
NormalizeSolarNoClip(col) == FillNa(col, RInt(3))

\* solar_data = np.clip(df['solar_sine'].fillna(3), 0, 6)
NormalizeSolar(col) ==
    LET filled == FillNa(col, RInt(3))
    IN  [k \in 1..Len(col) |-> Clip(filled[k], RInt(0), RInt(6))]

\* variant: a missing flag counts as set
NormalizeFlagsTrue(col) == FillNa(col, TRUE)

\* sunrise_events = df['sunrise_event'].fillna(False)
NormalizeFlags(col) == FillNa(col, FALSE)

\* variant: the calculated duration is rounded up instead of truncated
AutoDurationCeil(data_points) == -Floor(RDiv(RInt(-(data_points * 3)), RInt(4)))

\* duration = int((data_points * 3) / target_notes_per_second)
AutoDuration(data_points) == PyInt(RDiv(RInt(data_points * 3), RInt(4)))

\* beats_per_second = bpm / 60; total_beats = duration * beats_per_second
TotalBeats(bpm, dur) == RMul(RInt(dur), RDiv(RInt(bpm), RInt(60)))

\* beats_per_note = total_beats / data_points   (data_points # 0)
BeatsPerNote(bpm, dur, data_points) == RDiv(TotalBeats(bpm, dur), RInt(data_points))

\* cloud_note_idx = int((cloud_pct / 100) * (len(major_pentatonic) - 1))
CloudNoteIdx(cloud_pct) ==
    PyInt(RMul(RDiv(cloud_pct, RInt(100)), RInt(Len(major_pentatonic) - 1)))

\* cloud_velocity = int(50 + (cloud_pct / 100) * 50)
CloudVelocity(cloud_pct) ==
    PyInt(RAdd(RInt(50), RMul(RDiv(cloud_pct, RInt(100)), RInt(50))))

\* solar_note_idx = int((solar_val / 6) * (len(minor_pentatonic) - 1))
SolarNoteIdx(solar_val) ==
    PyInt(RMul(RDiv(solar_val, RInt(6)), RInt(Len(minor_pentatonic) - 1)))

\* solar_velocity = int(40 + (solar_val / 6) * 40)
SolarVelocity(solar_val) ==
    PyInt(RAdd(RInt(40), RMul(RDiv(solar_val, RInt(6)), RInt(40))))

\* variant: only the sunrise flag triggers a note
EventChoiceSunriseOnly(is_sunrise, is_sunset) ==
    IF is_sunrise
    THEN <<[idx |-> Len(harmonic_minor) - 3, velocity |-> 100]>>
    ELSE <<>>

\* variant: the sunset flag is tested first
EventChoiceSunsetFirst(is_sunrise, is_sunset) ==
    IF is_sunrise \/ is_sunset
    THEN IF is_sunset
         THEN <<[idx |-> 3, velocity |-> 80]>>
         ELSE <<[idx |-> Len(harmonic_minor) - 3, velocity |-> 100]>>
    ELSE <<>>

\* the event channel's choice: no note, the sunrise note or the sunset note
EventChoice(is_sunrise, is_sunset) ==
    IF is_sunrise \/ is_sunset
    THEN IF is_sunrise
         THEN <<[idx |-> Len(harmonic_minor) - 3, velocity |-> 100]>>
         ELSE <<[idx |-> 3, velocity |-> 80]>>
    ELSE <<>>

Note(pitch, time, dur, volume) ==
    [pitch |-> pitch, time |-> time, duration |-> dur, volume |-> volume]

\* variant: the note is put in front of the track's notes
AddNoteFront(trs, t, note) == [trs EXCEPT ![t] = <<note>> \o @]

\* midi.addNote(track=t, ...)
AddNote(trs, t, note) == [trs EXCEPT ![t] = Append(@, note)]

\* variant: current_beat = beats_per_note
NextBeatAssign(beat, step) == step

\* current_beat += beats_per_note
NextBeat(beat, step) == RAdd(beat, step)

(***************************************************************************)
(* csv_cleanup.py: inputs and computations                                 *)
(***************************************************************************)
\* (day_start, day_end) pairs: the defaults and one pair per rejected case
DayArgs == {<<6, 20>>, <<-1, 20>>, <<6, 24>>, <<20, 6>>}

CleanupArgs == {[entry |-> "main", day_start |-> d[1], day_end |-> d[2], sine_range |-> r,
                 use_solar |-> u, use_realistic_timing |-> t, tolerance |-> 30] :
                 d \in DayArgs, r \in {0, 1, 6}, u \in BOOLEAN, t \in BOOLEAN}

\* a timestamp: a calendar date (numbered by its day of the year) and the
\* minute of that day
Stamp(date, minute) == [date |-> date, minute |-> minute]
\* the timestamp as minutes on the time line (datetime differences, in minutes)
Instant(ts) == ts.date * (24 * 60) + ts.minute

\* 21 June (day 172, the one date of the sunrise/sunset table) and 31 October
\* (day 304, the latest seasonal solar noon): the ends of the tolerance
\* windows, the solar noons and midnights of the timing modes, the ends of
\* the day
Stamps == {Stamp(172, 69), Stamp(172, 330), Stamp(172, 377), Stamp(172, 710),
           Stamp(172, 789), Stamp(172, 1231), Stamp(172, 1439),
           Stamp(304, 0), Stamp(304, 390), Stamp(304, 720), Stamp(304, 1110),
           Stamp(304, 1111)}

\* the sunrise/sunset section of the raw file: one row, for day 172, with
\* sunrise at 05:47 and sunset at 20:31
SolarSection == <<[date |-> 172, sunrise_time |-> Instant(Stamp(172, 347)),
                   sunset_time |-> Instant(Stamp(172, 1231))]>>

RawFile(has_solar, rows) ==
    [known |-> TRUE, exists |-> TRUE, has_solar |-> has_solar, rows |-> rows]
MissingRawFile == [known |-> TRUE, exists |-> FALSE, has_solar |-> FALSE, rows |-> <<>>]

RawFiles ==
    {RawFile(h, r) : h \in BOOLEAN, r \in SeqsUpTo(Stamps, MaxLen)} \cup {MissingRawFile}

NoSolarData == [present |-> FALSE, rows |-> <<>>]

\* main(): the parser.error that rejects the command line, or "none"
CleanupArgError(a) ==
    IF a.day_start < 0 \/ a.day_start > 23 THEN "day-start"
    ELSE IF a.day_end < 0 \/ a.day_end > 23 THEN "day-end"
    ELSE IF a.day_start >= a.day_end THEN "day-order"
    ELSE IF a.sine_range < 1 THEN "sine-range"
    ELSE "none"

\* extract_solar_data: the table, or None when the file has no such section
ExtractSolarData(f) ==
    IF f.has_solar
    THEN [present |-> TRUE,
          rows |-> [k \in 1..Len(SolarSection) |->
                      [date |-> SolarSection[k].date,
                       sunrise_time |-> SolarSection[k].sunrise_time,
                       sunset_time |-> SolarSection[k].sunset_time,
                       solar_noon |-> SolarSection[k].sunrise_time
                                        + (SolarSection[k].sunset_time
                                             - SolarSection[k].sunrise_time) \div 2]]]
    ELSE NoSolarData

\* calculate_sunrise_sunset_events with solar_data None: 06:00 and 18:00
FallbackEvents(ts, tolerance_minutes) ==
    LET current_minutes == ts.minute
        sunrise_minutes == 6 * 60
        sunset_minutes == 18 * 60
    IN  [is_sunrise |-> Abs(current_minutes - sunrise_minutes) <= tolerance_minutes,
         is_sunset |-> Abs(current_minutes - sunset_minutes) <= tolerance_minutes]

\* variant: a date without a row in the table yields no event
SunriseSunsetEventsNoFallback(ts, solar, tolerance_minutes) ==
    IF ~solar.present THEN FallbackEvents(ts, tolerance_minutes)
    ELSE LET hits == {k \in 1..Len(solar.rows) : solar.rows[k].date = ts.date}
         IN  IF hits = {} THEN [is_sunrise |-> FALSE, is_sunset |-> FALSE]
             ELSE LET solar_row == solar.rows[CHOOSE k \in hits : \A m \in hits : k <= m]
                  IN  [is_sunrise |->
                         Abs(Instant(ts) - solar_row.sunrise_time) <= tolerance_minutes,
                       is_sunset |->
                         Abs(Instant(ts) - solar_row.sunset_time) <= tolerance_minutes]

\* calculate_sunrise_sunset_events
SunriseSunsetEvents(ts, solar, tolerance_minutes) ==
    IF ~solar.present THEN FallbackEvents(ts, tolerance_minutes)
    ELSE LET hits == {k \in 1..Len(solar.rows) : solar.rows[k].date = ts.date}
         IN  IF hits = {} THEN FallbackEvents(ts, tolerance_minutes)
             ELSE LET solar_row == solar.rows[CHOOSE k \in hits : \A m \in hits : k <= m]
                  IN  [is_sunrise |->
                         Abs(Instant(ts) - solar_row.sunrise_time) <= tolerance_minutes,
                       is_sunset |->
                         Abs(Instant(ts) - solar_row.sunset_time) <= tolerance_minutes]

(***************************************************************************)
(* csv_cleanup.py: the solar sine wave.  Values, minutes and angles are    *)
(* integers in millionths; an angle is measured in minutes of the 24-hour  *)
(* turn (1440 to the turn), so that 2*pi*h/24 is the angle 60*h.           *)
(***************************************************************************)
Micro == 1000 * 1000
Turn == 24 * 60 * Micro

\* cos(2*pi*m/1440) in millionths, for m = 0..360
CosTable ==
    <<
      1000000, 999990, 999962, 999914, 999848, 999762, 999657, 999534,
      999391, 999229, 999048, 998848, 998630, 998392, 998135, 997859,
      997564, 997250, 996917, 996566, 996195, 995805, 995396, 994969,
      994522, 994056, 993572, 993068, 992546, 992005, 991445, 990866,
      990268, 989651, 989016, 988362, 987688, 986996, 986286, 985556,
      984808, 984041, 983255, 982450, 981627, 980785, 979925, 979045,
      978148, 977231, 976296, 975342, 974370, 973379, 972370, 971342,
      970296, 969231, 968148, 967046, 965926, 964787, 963630, 962455,
      961262, 960050, 958820, 957571, 956305, 955020, 953717, 952396,
      951057, 949699, 948324, 946930, 945519, 944089, 942641, 941176,
      939693, 938191, 936672, 935135, 933580, 932008, 930418, 928810,
      927184, 925541, 923880, 922201, 920505, 918791, 917060, 915311,
      913545, 911762, 909961, 908143, 906308, 904455, 902585, 900698,
      898794, 896873, 894934, 892979, 891007, 889017, 887011, 884988,
      882948, 880891, 878817, 876727, 874620, 872496, 870356, 868199,
      866025, 863836, 861629, 859406, 857167, 854912, 852640, 850352,
      848048, 845728, 843391, 841039, 838671, 836286, 833886, 831470,
      829038, 826590, 824126, 821647, 819152, 816642, 814116, 811574,
      809017, 806445, 803857, 801254, 798636, 796002, 793353, 790690,
      788011, 785317, 782608, 779884, 777146, 774393, 771625, 768842,
      766044, 763232, 760406, 757565, 754710, 751840, 748956, 746057,
      743145, 740218, 737277, 734323, 731354, 728371, 725374, 722364,
      719340, 716302, 713250, 710185, 707107, 704015, 700909, 697790,
      694658, 691513, 688355, 685183, 681998, 678801, 675590, 672367,
      669131, 665882, 662620, 659346, 656059, 652760, 649448, 646124,
      642788, 639439, 636078, 632705, 629320, 625923, 622515, 619094,
      615661, 612217, 608761, 605294, 601815, 598325, 594823, 591310,
      587785, 584250, 580703, 577145, 573576, 569997, 566406, 562805,
      559193, 555570, 551937, 548293, 544639, 540974, 537300, 533615,
      529919, 526214, 522499, 518773, 515038, 511293, 507538, 503774,
      500000, 496217, 492424, 488621, 484810, 480989, 477159, 473320,
      469472, 465615, 461749, 457874, 453990, 450098, 446198, 442289,
      438371, 434445, 430511, 426569, 422618, 418660, 414693, 410719,
      406737, 402747, 398749, 394744, 390731, 386711, 382683, 378649,
      374607, 370557, 366501, 362438, 358368, 354291, 350207, 346117,
      342020, 337917, 333807, 329691, 325568, 321439, 317305, 313164,
      309017, 304864, 300706, 296542, 292372, 288196, 284015, 279829,
      275637, 271440, 267238, 263031, 258819, 254602, 250380, 246153,
      241922, 237686, 233445, 229200, 224951, 220697, 216440, 212178,
      207912, 203642, 199368, 195090, 190809, 186524, 182236, 177944,
      173648, 169350, 165048, 160743, 156434, 152123, 147809, 143493,
      139173, 134851, 130526, 126199, 121869, 117537, 113203, 108867,
      104528, 100188, 95846, 91502, 87156, 82808, 78459, 74108, 69756,
      65403, 61049, 56693, 52336, 47978, 43619, 39260, 34899, 30539, 26177,
      21815, 17452, 13090, 8727, 4363, 0
    >>

\* math.cos of the angle a: the table, by symmetry and linear interpolation
Cos(a) ==
    LET t == a % Turn
        u == IF t <= Turn \div 2 THEN t ELSE Turn - t
        neg == u > Turn \div 4
        v == IF neg THEN Turn \div 2 - u ELSE u
        k == v \div Micro
        f == v % Micro
        c == IF k = Len(CosTable) - 1
             THEN CosTable[k + 1]
             ELSE CosTable[k + 1]
                    + ((CosTable[k + 2] - CosTable[k + 1]) * (f \div 100)) \div 10000
    IN  IF neg THEN -c ELSE c

\* math.sin
Sin(a) == Cos(a - Turn \div 4)

\* the angle 2*pi*(n/d)/1440, reduced to one turn
Angle(n, d) == ((n \div d) % (24 * 60)) * Micro + ((n % d) * Micro) \div d

\* the default longitude of calculate_realistic_solar_noon_offset, -122.02, in
\* hundredths of a degree
DefaultLongitude == -12202

\* calculate_realistic_solar_noon_offset: minutes from 12:00 (in millionths)
\* B = 2*pi*(day_of_year - 81)/365 is the angle 1440*(day_of_year - 81)/365
SolarNoonOffset(day_of_year, longitude) ==
    LET B == Angle(288 * (day_of_year - 81), 73)
        twoB == Angle(576 * (day_of_year - 81), 73)
        E == (987 * Sin(twoB) - 753 * Cos(B) - 150 * Sin(B)) \div 100
        time_zone_meridian == -12000
        longitude_offset_minutes == 4 * (longitude - time_zone_meridian) * (Micro \div 100)
    IN  E + longitude_offset_minutes

\* variant: no day wrapping
WrapHoursNone(h) == h

\* if hours_from_solar_noon > 12: -= 24, elif < -12: += 24 (in minutes)
WrapHours(h) ==
    IF h > 12 * 60 * Micro THEN h - 24 * 60 * Micro
    ELSE IF h < -(12 * 60 * Micro) THEN h + 24 * 60 * Micro
    ELSE h

\* hours_from_solar_noon of the seasonal model after the wrapping step, in
\* minutes (millionths): hour - (12 + offset / 60)
HoursFromSolarNoon(ts) ==
    WrapHours((ts.minute - 12 * 60) * Micro - SolarNoonOffset(ts.date, DefaultLongitude))

\* variant: the full range as amplitude
WaveFullAmplitude(sine_range, c) == (sine_range * Micro) \div 2 + sine_range * c

\* sine_range/2 + sine_range/2 * c, for c a sine or cosine (in millionths)
Wave(sine_range, c) == (sine_range * Micro + sine_range * c) \div 2

\* max(0, min(sine_range, sine_value))
ClampSine(sine_range, sine_value) ==
    LET top == sine_range * Micro
        least == IF top < sine_value THEN top ELSE sine_value
    IN  IF least < 0 THEN 0 ELSE least

\* calculate_solar_sine_wave, use_realistic_timing (lines 190-210)
RealisticSine(ts, sine_range) ==
    ClampSine(sine_range, Wave(sine_range, Cos(HoursFromSolarNoon(ts))))

\* calculate_solar_sine_wave with the table row of the date (lines 216-241)
TableSine(ts, solar_row, sine_range) ==
    LET solar_noon == solar_row.solar_noon
        before == solar_noon - 12 * 60
        solar_midnight == IF before \div (24 * 60) # ts.date
                          THEN solar_noon + 12 * 60 ELSE before
        time_diff == Instant(ts) - solar_midnight
        hours_since_midnight == IF time_diff < 0 THEN time_diff + 24 * 60
                                ELSE IF time_diff >= 24 * 60 THEN time_diff - 24 * 60
                                ELSE time_diff
    IN  ClampSine(sine_range,
                  Wave(sine_range, Sin(hours_since_midnight * Micro - Turn \div 4)))

\* calculate_solar_sine_wave, the fixed calculation (line 245), with
\* hour = datetime_obj.hour + datetime_obj.minute / 60
FallbackSine(ts, sine_range) ==
    Wave(sine_range, Sin((ts.minute - 6 * 60) * Micro + Turn \div 4))

\* cleanup_csv: the simple sine wave on df['hour'] (lines 441-444, unrounded)
SimpleSine(h, sine_range) ==
    Wave(sine_range, Sin((h - 6) * 60 * Micro + Turn \div 4))

\* calculate_solar_sine_wave
SolarSineWave(ts, solar, sine_range, use_realistic_timing) ==
    IF use_realistic_timing THEN RealisticSine(ts, sine_range)
    ELSE LET hits == IF solar.present
                     THEN {k \in 1..Len(solar.rows) : solar.rows[k].date = ts.date}
                     ELSE {}
         IN  IF hits = {} THEN FallbackSine(ts, sine_range)
             ELSE TableSine(ts, solar.rows[CHOOSE k \in hits : \A m \in hits : k <= m],
                            sine_range)

\* round(value, 2), as the float the cleaned file holds
Round2(v) == Rat((v + 5000) \div 10000, 100)

(***************************************************************************)
(* Initial state                                                           *)
(***************************************************************************)
NoMeta == [name |-> "", tempo |-> 0, program |-> -1]
EmptyTracks == [t \in TrackIds |-> <<>>]
NoIo == [write |-> "none", viz |-> "none"]
DefaultArgs == [entry |-> "main", bpm |-> 120, duration |-> 300,
                auto_duration |-> FALSE, verbose |-> FALSE]
NoPrev == [exists |-> FALSE, args |-> DefaultArgs, pc |-> "start", error |-> "",
           track_meta |-> [t \in TrackIds |-> NoMeta], tracks |-> EmptyTracks,
           io |-> NoIo, out_file |-> "absent"]

\* the locals of one invocation before it has run
FreshRun ==
    /\ error = ""
    /\ df_loaded = FALSE
    /\ df = <<>>
    /\ cloud_data = <<>>
    /\ solar_data = <<>>
    /\ sunrise_events = <<>>
    /\ sunset_events = <<>>
    /\ beats_per_note = RInt(0)
    /\ current_beat = RInt(0)
    /\ i = 0
    /\ midi_created = FALSE
    /\ track_meta = [t \in TrackIds |-> NoMeta]
    /\ tracks = EmptyTracks
    /\ cloud_note_idx = 0
    /\ solar_note_idx = 0
    /\ io = NoIo
    /\ out_file = "absent"
    /\ sine_values = <<>>

InitMidi ==
    /\ program = "midi"
    /\ args \in MainArgs \cup CallArgs
    /\ pc = IF args.entry = "main" THEN "start" ELSE "load"
    /\ duration = args.duration
    /\ csv_file = UnknownFile
    /\ prev = NoPrev
    /\ FreshRun

InitCleanup ==
    /\ program = "cleanup"
    /\ args \in CleanupArgs
    /\ pc = "start"
    /\ duration = 0
    /\ csv_file = UnknownFile
    /\ prev = NoPrev
    /\ FreshRun

Init == InitMidi \/ InitCleanup

(***************************************************************************)
(* Steps of the converter                                                  *)
(***************************************************************************)
runLocals == <<df_loaded, df, cloud_data, solar_data, sunrise_events, sunset_events,
               duration, beats_per_note, current_beat, i, midi_created, track_meta,
               tracks, cloud_note_idx, solar_note_idx, io, out_file, sine_values>>

\* an exception leaves create_3channel_midi_with_events (main prints it, exit 1)
Raise(kind) ==
    /\ pc' = "failed"
    /\ error' = kind

\* main(): parse and validate the arguments (lines 310-317)
Main ==
    /\ program = "midi"
    /\ pc = "start"
    /\ IF ArgError(args) # "none"
       THEN /\ pc' = "rejected"
            /\ error' = "InvalidParameter"
       ELSE /\ pc' = "load"
            /\ error' = error
    /\ UNCHANGED <<program, args, csv_file, prev>>
    /\ UNCHANGED runLocals

\* load and validate the data, normalise the four columns (lines 48-89)
LoadCsv ==
    /\ program = "midi"
    /\ pc = "load"
    /\ \E f \in (IF csv_file.known THEN {csv_file} ELSE FilesFor(args)) :
        /\ csv_file' = f
        /\ IF ~f.readable
           THEN /\ Raise("CsvLoad")
                /\ UNCHANGED <<df_loaded, df, cloud_data, solar_data,
                               sunrise_events, sunset_events>>
           ELSE /\ df_loaded' = TRUE
                /\ df' = f.rows
                /\ IF MissingCols(f.columns) # {}
                   THEN /\ Raise("MissingColumn")
                        /\ UNCHANGED <<cloud_data, solar_data, sunrise_events,
                                       sunset_events>>
                   ELSE IF ~(required_cols \subseteq f.columns)
                   THEN \* df[col] of an absent column
                        /\ Raise("KeyError")
                        /\ UNCHANGED <<cloud_data, solar_data, sunrise_events,
                                       sunset_events>>
                   ELSE /\ cloud_data' = NormalizeCloud(Column(f.rows, "cloud"))
                        /\ solar_data' = NormalizeSolar(Column(f.rows, "solar"))
                        /\ sunrise_events' = NormalizeFlags(Column(f.rows, "sunrise"))
                        /\ sunset_events' = NormalizeFlags(Column(f.rows, "sunset"))
                        /\ pc' = "timing"
                        /\ error' = error
    /\ UNCHANGED <<sine_values, program, args, prev, duration, beats_per_note, current_beat, i,
                   midi_created, track_meta, tracks, cloud_note_idx, solar_note_idx,
                   io, out_file>>

\* the timing model (lines 91-111)
CalcTiming ==
    /\ program = "midi"
    /\ pc = "timing"
    /\ LET data_points == Len(df)
           dur == IF args.auto_duration THEN AutoDuration(data_points) ELSE duration
       IN  /\ duration' = dur
           /\ IF data_points = 0
              THEN \* total_beats / data_points
                   /\ Raise("ZeroDivisionError")
                   /\ UNCHANGED beats_per_note
              ELSE /\ beats_per_note' = BeatsPerNote(args.bpm, dur, data_points)
                   /\ IF args.verbose /\ dur = 0
                      THEN \* data_points / duration in the verbose report
                           Raise("ZeroDivisionError")
                      ELSE /\ pc' = "create"
                           /\ error' = error
    /\ UNCHANGED <<sine_values, program, args, csv_file, prev, df_loaded, df, cloud_data, solar_data,
                   sunrise_events, sunset_events, current_beat, i, midi_created,
                   track_meta, tracks, cloud_note_idx, solar_note_idx, io, out_file>>

\* MIDIFile(3), track names, tempo, instruments; current_beat = 0 (lines 113-147)
CreateMidi ==
    /\ program = "midi"
    /\ pc = "create"
    /\ midi_created' = TRUE
    /\ track_meta' =
         [t \in TrackIds |->
            [name |-> CASE t = 0 -> "Cloud Coverage (Inverted)"
                        [] t = 1 -> "Solar Sine Wave"
                        [] t = 2 -> "Sunrise/Sunset Events",
             tempo |-> args.bpm,
             program |-> CASE t = 0 -> 0 [] t = 1 -> 8 [] t = 2 -> 14]]
    /\ tracks' = EmptyTracks
    /\ current_beat' = RInt(0)
    /\ i' = 0
    /\ pc' = "loop"
    /\ UNCHANGED <<sine_values, program, args, csv_file, prev, error, df_loaded, df, cloud_data,
                   solar_data, sunrise_events, sunset_events, duration, beats_per_note,
                   cloud_note_idx, solar_note_idx, io, out_file>>

\* one iteration of `for i, row in df.iterrows()` (lines 149-188)
GenerateNotes ==
    /\ program = "midi"
    /\ pc = "loop"
    /\ i < Len(df)
    /\ LET cloud_pct == cloud_data[i + 1]
           cidx == CloudNoteIdx(cloud_pct)
           solar_val == solar_data[i + 1]
           sidx == SolarNoteIdx(solar_val)
           event == EventChoice(sunrise_events[i + 1], sunset_events[i + 1])
           cloudNote == Note(PyIndex(major_pentatonic, cidx), current_beat,
                             RMul(beats_per_note, Rat(8, 10)), CloudVelocity(cloud_pct))
           solarNote == Note(PyIndex(minor_pentatonic, sidx), current_beat,
                             RMul(beats_per_note, Rat(7, 10)), SolarVelocity(solar_val))
           eventNote == Note(PyIndex(harmonic_minor, event[1].idx), current_beat,
                             RMul(beats_per_note, Rat(12, 10)), event[1].velocity)
           with0 == AddNote(tracks, 0, cloudNote)
           with1 == AddNote(with0, 1, solarNote)
       IN  /\ cloud_note_idx' = cidx
           /\ IF ~InRange(major_pentatonic, cidx)
              THEN /\ Raise("IndexError")
                   /\ UNCHANGED <<tracks, solar_note_idx, current_beat, i>>
              ELSE /\ solar_note_idx' = sidx
                   /\ IF ~InRange(minor_pentatonic, sidx)
                      THEN /\ Raise("IndexError")
                           /\ tracks' = with0
                           /\ UNCHANGED <<current_beat, i>>
                      ELSE /\ tracks' = IF event = <<>> THEN with1
                                        ELSE AddNote(with1, 2, eventNote)
                           /\ current_beat' = NextBeat(current_beat, beats_per_note)
                           /\ i' = i + 1
                           /\ UNCHANGED <<pc, error>>
    /\ UNCHANGED <<sine_values, program, args, csv_file, prev, df_loaded, df, cloud_data, solar_data,
                   sunrise_events, sunset_events, duration, beats_per_note,
                   midi_created, track_meta, io, out_file>>

\* open(output_file, "wb") and midi.writeFile (lines 190-205)
SaveMidi ==
    /\ program = "midi"
    /\ pc = "loop"
    /\ i = Len(df)
    /\ \E w \in {"ok", "open_failed", "write_failed"} :
        /\ io' = [io EXCEPT !.write = w]
        /\ out_file' = CASE w = "ok" -> "complete"
                         [] w = "open_failed" -> "absent"
                         [] w = "write_failed" -> "partial"
        /\ IF w = "ok"
           THEN /\ pc' = "viz"
                /\ error' = error
           ELSE Raise("SerializationFailure")
    /\ UNCHANGED <<sine_values, program, args, csv_file, prev, df_loaded, df, cloud_data, solar_data,
                   sunrise_events, sunset_events, duration, beats_per_note, current_beat,
                   i, midi_created, track_meta, tracks, cloud_note_idx, solar_note_idx>>

\* create_visualization, then the return to the caller (lines 207-211, 213-273,
\* 330-344)
CreateVisualization ==
    /\ program = "midi"
    /\ pc = "viz"
    /\ \E v \in {"ok", "failed"} :
        /\ io' = [io EXCEPT !.viz = v]
        /\ IF v = "ok"
           THEN /\ pc' = "done"
                /\ error' = error
           ELSE Raise("VisualizationFailure")
    /\ UNCHANGED <<sine_values, program, args, csv_file, prev, df_loaded, df, cloud_data, solar_data,
                   sunrise_events, sunset_events, duration, beats_per_note, current_beat,
                   i, midi_created, track_meta, tracks, cloud_note_idx, solar_note_idx,
                   out_file>>

Finished == pc \in {"done", "failed", "rejected"}

\* the same file is converted once more with the command line `a`: the first
\* run's outcome is kept in `prev`, the locals start afresh
StartAgain(a) ==
    /\ args' = a
    /\ duration' = a.duration
    /\ prev' = [exists |-> TRUE, args |-> args, pc |-> pc, error |-> error,
                track_meta |-> track_meta, tracks |-> tracks, io |-> io,
                out_file |-> out_file]
    /\ pc' = "start"
    /\ error' = ""
    /\ df_loaded' = FALSE
    /\ df' = <<>>
    /\ cloud_data' = <<>>
    /\ solar_data' = <<>>
    /\ sunrise_events' = <<>>
    /\ sunset_events' = <<>>
    /\ beats_per_note' = RInt(0)
    /\ current_beat' = RInt(0)
    /\ i' = 0
    /\ midi_created' = FALSE
    /\ track_meta' = [t \in TrackIds |-> NoMeta]
    /\ tracks' = EmptyTracks
    /\ cloud_note_idx' = 0
    /\ solar_note_idx' = 0
    /\ io' = NoIo
    /\ out_file' = "absent"
    /\ UNCHANGED <<program, csv_file, sine_values>>

\* a command line with --auto-duration is run once more with another --duration
Rerun ==
    /\ program = "midi"
    /\ args.entry = "main"
    /\ args.auto_duration
    /\ Finished
    /\ ~prev.exists
    /\ \E d \in DurationArgs \ {args.duration} :
        StartAgain([args EXCEPT !.duration = d])

\* a command line is run once more with the same file, --bpm, --duration and
\* --auto-duration, and -v added or removed
RerunVerbose ==
    /\ program = "midi"
    /\ args.entry = "main"
    /\ Finished
    /\ ~prev.exists
    /\ StartAgain([args EXCEPT !.verbose = ~args.verbose])

(***************************************************************************)
(* Steps of the cleanup script                                             *)
(***************************************************************************)
cleanupUnused == <<cloud_data, duration, beats_per_note, current_beat, midi_created,
                   track_meta, tracks, cloud_note_idx, solar_note_idx, prev>>

\* main(): parse and validate the arguments (lines 564-577)
CleanupMain ==
    /\ program = "cleanup"
    /\ pc = "start"
    /\ IF CleanupArgError(args) # "none"
       THEN /\ pc' = "rejected"
            /\ error' = "InvalidParameter"
       ELSE /\ pc' = "read"
            /\ error' = error
    /\ UNCHANGED <<program, args, csv_file>>
    /\ UNCHANGED runLocals
    /\ UNCHANGED prev

\* cleanup_csv: read the raw file, its solar section and its data rows, parse
\* the timestamps (lines 278-367)
CleanupRead ==
    /\ program = "cleanup"
    /\ pc = "read"
    /\ \E f \in RawFiles :
        /\ csv_file' = f
        /\ IF ~f.exists
           THEN /\ Raise("FileNotFoundError")
                /\ UNCHANGED <<df_loaded, df, solar_data>>
           ELSE /\ solar_data' = IF args.use_solar THEN ExtractSolarData(f) ELSE NoSolarData
                /\ df_loaded' = TRUE
                /\ df' = f.rows
                /\ pc' = "rows"
                /\ error' = error
    /\ UNCHANGED <<program, args, sunrise_events, sunset_events, sine_values, i, io,
                   out_file>>
    /\ UNCHANGED cleanupUnused

\* df['hour'] = df['datetime'].dt.hour
HourOf(ts) == ts.minute \div 60

\* one row of the per-row loop: the solar_sine value and the sunrise/sunset
\* flags of the row (lines 380-398 with the solar model, lines 441-452 with
\* the day/night cycle)
CleanupRow ==
    /\ program = "cleanup"
    /\ pc = "rows"
    /\ i < Len(df)
    /\ LET ts == df[i + 1]
           solar_model == args.use_realistic_timing
                            \/ (solar_data.present /\ args.use_solar)
           sine_val == IF solar_model
                       THEN SolarSineWave(ts, solar_data, args.sine_range,
                                          args.use_realistic_timing)
                       ELSE SimpleSine(HourOf(ts), args.sine_range)
           events == IF solar_model
                     THEN SunriseSunsetEvents(ts, solar_data, args.tolerance)
                     ELSE SunriseSunsetEvents(ts, NoSolarData, args.tolerance)
       IN  /\ sine_values' = Append(sine_values, Round2(sine_val))
           /\ sunrise_events' = Append(sunrise_events, events.is_sunrise)
           /\ sunset_events' = Append(sunset_events, events.is_sunset)
    /\ i' = i + 1
    /\ UNCHANGED <<program, args, csv_file, pc, error, df_loaded, df, solar_data, io,
                   out_file>>
    /\ UNCHANGED cleanupUnused

\* df_cleaned.to_csv(output_file) and the summary (lines 465-491, 594-607)
CleanupSave ==
    /\ program = "cleanup"
    /\ pc = "rows"
    /\ i = Len(df)
    /\ \E w \in {"ok", "write_failed"} :
        /\ io' = [io EXCEPT !.write = w]
        /\ IF w = "ok"
           THEN /\ out_file' = "complete"
                /\ pc' = "done"
                /\ error' = error
           ELSE /\ out_file' = "partial"
                /\ Raise("SaveFailure")
    /\ UNCHANGED <<program, args, csv_file, df_loaded, df, solar_data, sunrise_events,
                   sunset_events, sine_values, i>>
    /\ UNCHANGED cleanupUnused

Next ==
    \/ CleanupMain
    \/ CleanupRead
    \/ CleanupRow
    \/ CleanupSave
    \/ Main
    \/ LoadCsv
    \/ CalcTiming
    \/ CreateMidi
    \/ GenerateNotes
    \/ SaveMidi
    \/ CreateVisualization
    \/ Rerun
    \/ RerunVerbose

Spec == Init /\ [][Next]_vars

(***************************************************************************)
(* Vocabulary of the properties                                            *)
(***************************************************************************)
Midi == program = "midi"
Cleanup == program = "cleanup"
Range(seq) == {seq[k] : k \in 1..Len(seq)}

\* the raw flags of an input row, a missing flag counting as false
RawSunrise(row) == ~row.sunrise.isna /\ row.sunrise.v
RawSunset(row) == ~row.sunset.isna /\ row.sunset.v
Flagged(row) == RawSunrise(row) \/ RawSunset(row)

\* the (1-based) positions of the flagged rows among the first k, in input order
FlaggedIdx(rows, k) == SelectSeq([j \in 1..k |-> j], LAMBDA j : Flagged(rows[j]))

\* the timing model has run
AfterTiming ==
    Midi /\ (pc \in {"create", "loop", "viz", "done"} \/ midi_created
             \/ error = "ZeroDivisionError")

\* C1: tracks 0 and 1 receive exactly one note per sample and track 2 one
\* note per flagged sample (missing flags counting as false) and none for the
\* others: after k samples tracks 0 and 1 hold k notes and track 2 as many
\* as there are flagged samples among the first k; a complete run has
\* processed all n samples.
C1_Sparsity ==
    (Midi /\ midi_created) =>
        /\ Len(tracks[0]) = i
        /\ Len(tracks[1]) = i
        /\ Len(tracks[2]) = Len(FlaggedIdx(csv_file.rows, i))
        /\ \A m \in 1..Len(tracks[2]) :
             tracks[2][m].time = tracks[0][FlaggedIdx(csv_file.rows, i)[m]].time
        /\ (pc \in {"viz", "done"} => i = Len(csv_file.rows))

C1_Witness ==
    /\ Midi
    /\ pc = "done"
    /\ Len(tracks[2]) >= 1
    /\ Len(tracks[2]) < Len(tracks[0])
    /\ \E k \in 1..Len(csv_file.rows) : csv_file.rows[k].sunrise.isna

\* C2: the event note of a flagged sample depends on its two flags only:
\* sunrise set gives scale[len - 3] (index 10 of 13) at velocity 100 whatever
\* the sunset flag, sunset alone gives scale[3] at velocity 80.
C2_EventNote ==
    (Midi /\ midi_created) =>
        LET fi == FlaggedIdx(csv_file.rows, i)
        IN  /\ Len(tracks[2]) = Len(fi)
            /\ Len(harmonic_minor) = 13
            /\ \A m \in 1..Len(fi) :
                 LET row == csv_file.rows[fi[m]]
                     note == tracks[2][m]
                 IN  IF RawSunrise(row)
                     THEN /\ note.pitch = harmonic_minor[(Len(harmonic_minor) - 3) + 1]
                          /\ note.pitch = harmonic_minor[10 + 1]
                          /\ note.volume = 100
                     ELSE /\ note.pitch = harmonic_minor[3 + 1]
                          /\ note.volume = 80

C2_Witness ==
    /\ Midi
    /\ pc = "done"
    /\ \E k \in 1..Len(csv_file.rows) :
         RawSunrise(csv_file.rows[k]) /\ RawSunset(csv_file.rows[k])
    /\ \E k \in 1..Len(csv_file.rows) :
         ~RawSunrise(csv_file.rows[k]) /\ RawSunset(csv_file.rows[k])

\* C3: the pitch index of the clarity and of the cyclical channel is the
\* floor of (normalized value / value_max) * (len(scale) - 1), lies in
\* 0..len(scale)-1 for every raw value, and is the last index when the
\* normalized value is value_max (clarity 100, proxy 6); no index is ever out
\* of bounds.
C3_PitchIndex ==
    (Midi /\ midi_created) =>
        /\ error # "IndexError"
        /\ i >= 1 =>
             /\ cloud_note_idx =
                  Floor(RMul(RDiv(cloud_data[i], RInt(100)), RInt(Len(major_pentatonic) - 1)))
             /\ solar_note_idx =
                  Floor(RMul(RDiv(solar_data[i], RInt(6)), RInt(Len(minor_pentatonic) - 1)))
             /\ cloud_note_idx \in 0..(Len(major_pentatonic) - 1)
             /\ solar_note_idx \in 0..(Len(minor_pentatonic) - 1)
             /\ (cloud_data[i] = RInt(100) => cloud_note_idx = 12)
             /\ (solar_data[i] = RInt(6) => solar_note_idx = 12)

C3_Witness ==
    /\ Midi
    /\ midi_created
    /\ i >= 1
    /\ ~csv_file.rows[i].cloud.isna
    /\ RLt(csv_file.rows[i].cloud.v, RInt(0))
    /\ RLt(RInt(6), csv_file.rows[i].solar.v)
    /\ cloud_note_idx = 12
    /\ solar_note_idx = 12

\* C4: with beat_increment = (duration * bpm / 60) / sample_count, the notes
\* of sample k start at beat k * beat_increment on every channel: sample 0 at
\* beat 0, start beats non-decreasing, sample_count * beat_increment equal to
\* total_beats; 10 samples at 120 bpm over 5 s give an increment of 1 beat and
\* sample 9 starts at beat 9.
C4_StartBeats ==
    (Midi /\ midi_created) =>
        LET n == Len(df)
            inc == Rat(duration * args.bpm, 60 * n)
            fi == FlaggedIdx(csv_file.rows, i)
        IN  /\ beats_per_note = inc
            /\ RMul(RInt(n), beats_per_note) = Rat(duration * args.bpm, 60)
            /\ \A t \in {0, 1} : \A k \in 1..Len(tracks[t]) :
                 tracks[t][k].time = RMul(RInt(k - 1), inc)
            /\ \A m \in 1..Len(tracks[2]) :
                 m <= Len(fi) => tracks[2][m].time = RMul(RInt(fi[m] - 1), inc)
            /\ \A t \in TrackIds : \A k \in 1..(Len(tracks[t]) - 1) :
                 RLe(tracks[t][k].time, tracks[t][k + 1].time)
            /\ current_beat = RMul(RInt(i), inc)
            /\ (n = 10 /\ args.bpm = 120 /\ args.duration = 5 /\ ~args.auto_duration) =>
                 /\ beats_per_note = RInt(1)
                 /\ (i >= 1 => tracks[0][1].time = RInt(0))
                 /\ (i = 10 => tracks[0][10].time = RInt(9) /\ tracks[1][10].time = RInt(9))

C4_Witness ==
    /\ Midi
    /\ pc = "done"
    /\ Len(df) = 10
    /\ args.bpm = 120
    /\ args.duration = 5
    /\ ~args.auto_duration
    /\ tracks[0][10].time = RInt(9)
    /\ Len(tracks[2]) >= 2

\* C5: in auto-duration mode the duration used for the timing is
\* floor(3 * n / 4) seconds for every sample count n.
C5_AutoDuration ==
    (AfterTiming /\ args.auto_duration) =>
        LET n == Len(df)
        IN  /\ duration = (3 * n) \div 4
            /\ 4 * duration <= 3 * n
            /\ 3 * n < 4 * (duration + 1)
            /\ (n > 0 => beats_per_note = Rat(((3 * n) \div 4) * args.bpm, 60 * n))

C5_Witness ==
    /\ Midi
    /\ pc = "done"
    /\ args.auto_duration
    /\ Len(df) = 2
    /\ duration = 1
    /\ duration # args.duration

\* where both invocations asked the file system, it answered alike
SameEnvironment ==
    /\ (io.write = "none" \/ prev.io.write = "none" \/ io.write = prev.io.write)
    /\ (io.viz = "none" \/ prev.io.viz = "none" \/ io.viz = prev.io.viz)

\* C6: with auto_duration set the supplied duration is ignored: two runs from
\* main() that differ only in --duration end alike (both succeed or both
\* fail) and, when they succeed, have emitted the same note stream.
C6_DurationIgnored ==
    (Midi /\ prev.exists /\ Finished /\ args.auto_duration /\ SameEnvironment
       /\ prev.args = [args EXCEPT !.duration = prev.args.duration]) =>
        /\ (pc = "done") <=> (prev.pc = "done")
        /\ (pc = "done") => (tracks = prev.tracks /\ out_file = prev.out_file)

\* C7: with a required column absent the conversion fails with the
\* missing-column error before the MIDI object exists, before any note is
\* generated, and without an output file.
C7_MissingColumn ==
    (Midi /\ csv_file.known /\ csv_file.readable
       /\ ~(required_cols \subseteq csv_file.columns)
       /\ pc \notin {"start", "load", "rejected"}) =>
        /\ pc = "failed"
        /\ error = "MissingColumn"
        /\ ~midi_created
        /\ tracks = EmptyTracks
        /\ i = 0
        /\ out_file = "absent"

C7_Witness ==
    /\ Midi
    /\ pc = "failed"
    /\ error = "MissingColumn"
    /\ Cardinality(csv_file.columns) = 3
    /\ Len(df) >= 1

\* C8: a conversion started from main() with bpm outside 60..240 or duration
\* outside 60..600 is rejected before the input is loaded and before any note
\* is generated, and writes no file; a cleanup run with sine-range below 1 is
\* rejected before any row is processed.
C8_RejectedEarly ==
    /\ (Midi /\ args.entry = "main"
          /\ (args.bpm \notin 60..240 \/ args.duration \notin 60..600)) =>
         /\ pc \in {"start", "rejected"}
         /\ (pc = "rejected" => error = "InvalidParameter")
         /\ ~df_loaded
         /\ ~midi_created
         /\ tracks = EmptyTracks
         /\ out_file = "absent"
    /\ (Cleanup /\ args.sine_range < 1) =>
         /\ pc \in {"start", "rejected"}
         /\ (pc = "rejected" => error = "InvalidParameter")
         /\ ~df_loaded
         /\ i = 0
         /\ sunrise_events = <<>>
         /\ sunset_events = <<>>
         /\ out_file = "absent"

C8_Witness ==
    /\ Midi
    /\ pc = "rejected"
    /\ args.bpm \in 60..240
    /\ args.duration > 600
    /\ ~args.auto_duration

\* C9: a conversion run that ends with a fatal error has produced no output
\* MIDI file, neither a complete nor a partial one.
C9_NoFileOnFatal ==
    (Midi /\ pc = "failed") => out_file = "absent"

\* C10: every note added to a track is in range for its channel: track 0
\* pitches from the major pentatonic table with velocity 50..100, track 1
\* pitches from the minor pentatonic table with velocity 40..80, track 2
\* pitches from the harmonic minor table with velocity 80 or 100; so every
\* pitch and velocity is within 0..127.
C10_NoteRanges ==
    Midi =>
        /\ \A k \in 1..Len(tracks[0]) :
             /\ tracks[0][k].pitch \in Range(major_pentatonic)
             /\ tracks[0][k].volume \in 50..100
        /\ \A k \in 1..Len(tracks[1]) :
             /\ tracks[1][k].pitch \in Range(minor_pentatonic)
             /\ tracks[1][k].volume \in 40..80
        /\ \A k \in 1..Len(tracks[2]) :
             /\ tracks[2][k].pitch \in Range(harmonic_minor)
             /\ tracks[2][k].volume \in {80, 100}
        /\ \A t \in TrackIds : \A k \in 1..Len(tracks[t]) :
             /\ tracks[t][k].pitch \in 0..127
             /\ tracks[t][k].volume \in 0..127

C10_Witness ==
    /\ Midi
    /\ pc = "done"
    /\ \E k \in 1..Len(tracks[0]) :
         /\ csv_file.rows[k].cloud.isna
         /\ tracks[0][k].volume = 100
         /\ tracks[1][k].volume = 60
    /\ \E k \in 1..Len(tracks[0]) :
         /\ ~csv_file.rows[k].cloud.isna
         /\ RLt(RInt(100), csv_file.rows[k].cloud.v)
         /\ RLt(csv_file.rows[k].solar.v, RInt(0))
         /\ tracks[0][k].volume = 50
         /\ tracks[1][k].volume = 40
    /\ \E m \in 1..Len(tracks[2]) : tracks[2][m].volume = 100

\* C11: the conversion is deterministic: two runs with the same input samples,
\* bpm, duration and auto_duration have produced the same track metadata, the
\* same note sequence on each of the three tracks and the same output file.
C11_Deterministic ==
    (Midi /\ prev.exists /\ Finished /\ SameEnvironment
       /\ prev.args.bpm = args.bpm
       /\ prev.args.duration = args.duration
       /\ prev.args.auto_duration = args.auto_duration) =>
        /\ track_meta = prev.track_meta
        /\ tracks = prev.tracks
        /\ out_file = prev.out_file

\* the four columns have been normalised
Normalized ==
    /\ Midi
    /\ csv_file.known
    /\ pc \in {"timing", "create", "loop", "viz", "done"} \/ midi_created
         \/ error = "ZeroDivisionError"

\* C12: missing values are replaced by fixed defaults and all values are
\* clipped before quantization: a missing cloud cover counts as 0 % (clarity
\* 100, top scale entry, velocity 100), cloud cover above 100 gives clarity 0
\* and below 0 clarity 100, a missing proxy counts as 3 (scale index 6,
\* velocity 60), a missing flag counts as false; the clarity always lies in
\* [0, 100] and the proxy in [0, 6].
C12_Defaults ==
    Normalized =>
        /\ Len(cloud_data) = Len(csv_file.rows)
        /\ Len(solar_data) = Len(csv_file.rows)
        /\ Len(sunrise_events) = Len(csv_file.rows)
        /\ Len(sunset_events) = Len(csv_file.rows)
        /\ \A k \in 1..Len(csv_file.rows) :
             LET row == csv_file.rows[k]
             IN  /\ row.cloud.isna => cloud_data[k] = RInt(100)
                 /\ (~row.cloud.isna /\ RLt(RInt(100), row.cloud.v)) =>
                       cloud_data[k] = RInt(0)
                 /\ (~row.cloud.isna /\ RLt(row.cloud.v, RInt(0))) =>
                       cloud_data[k] = RInt(100)
                 /\ row.solar.isna => solar_data[k] = RInt(3)
                 /\ row.sunrise.isna => sunrise_events[k] = FALSE
                 /\ row.sunset.isna => sunset_events[k] = FALSE
                 /\ RLe(RInt(0), cloud_data[k]) /\ RLe(cloud_data[k], RInt(100))
                 /\ RLe(RInt(0), solar_data[k]) /\ RLe(solar_data[k], RInt(6))
                 /\ (k <= Len(tracks[0]) /\ row.cloud.isna) =>
                       /\ tracks[0][k].pitch = major_pentatonic[Len(major_pentatonic)]
                       /\ tracks[0][k].volume = 100
                 /\ (k <= Len(tracks[1]) /\ row.solar.isna) =>
                       /\ tracks[1][k].pitch = minor_pentatonic[6 + 1]
                       /\ tracks[1][k].volume = 60

C12_Witness ==
    /\ Midi
    /\ pc = "done"
    /\ Len(tracks[0]) = 2
    /\ Len(tracks[2]) = 1
    /\ \E k \in 1..2 :
         /\ csv_file.rows[k].cloud.isna
         /\ csv_file.rows[k].solar.isna
         /\ csv_file.rows[k].sunrise.isna
         /\ csv_file.rows[k].sunset.isna
         /\ tracks[0][k].volume = 100
         /\ tracks[1][k].pitch = minor_pentatonic[6 + 1]
    /\ \E k \in 1..2 :
         /\ ~csv_file.rows[k].cloud.isna
         /\ RLt(RInt(100), csv_file.rows[k].cloud.v)
         /\ cloud_data[k] = RInt(0)

\* the dates that have a row in the sunrise/sunset table of this run
TableDates == {solar_data.rows[k].date : k \in 1..Len(solar_data.rows)}

\* C13: a lookup miss is never fatal: for a timestamp whose date has no row
\* in the sunrise/sunset table the proximity check gives what it gives
\* without any table, is_sunrise iff |minute_of_day - 360| <= tolerance and
\* is_sunset iff |minute_of_day - 1080| <= tolerance (bounds inclusive), and
\* the remaining rows are processed.
C13_LookupMiss ==
    Cleanup =>
        /\ \A k \in 1..Len(sunrise_events) :
             (~solar_data.present \/ df[k].date \notin TableDates) =>
                 /\ sunrise_events[k] = (Abs(df[k].minute - 360) <= args.tolerance)
                 /\ sunset_events[k] = (Abs(df[k].minute - 1080) <= args.tolerance)
        /\ Len(sunrise_events) = i
        /\ Len(sunset_events) = i
        /\ pc = "failed" => error \in {"FileNotFoundError", "SaveFailure"}
        /\ pc = "done" => i = Len(df)

C13_Witness ==
    /\ Cleanup
    /\ pc = "done"
    /\ solar_data.present
    /\ Len(df) = 2
    /\ df[1].date \notin TableDates
    /\ df[1].minute = 360 + args.tolerance
    /\ sunrise_events[1]
    /\ ~sunset_events[1]
    /\ df[2].date \in TableDates
    /\ sunset_events[2]

\* the timing mode of this cleanup run
Seasonal == Cleanup /\ df_loaded /\ args.use_realistic_timing
Measured ==
    Cleanup /\ df_loaded /\ ~args.use_realistic_timing /\ args.use_solar
      /\ solar_data.present
SimpleMode ==
    Cleanup /\ df_loaded /\ ~args.use_realistic_timing
      /\ ~(args.use_solar /\ solar_data.present)

\* every day of the year, and every whole hour and the last minute of a day
DaysOfYear == 1..366
HourMarks == {60 * h : h \in 0..23} \cup {24 * 60 - 1}

InSineRange(v, sine_range) == 0 <= v /\ v <= sine_range * Micro

\* C14: the proxy value of every sample lies within [0, sine_range], for
\* every timestamp, every day of the year and every configured sine_range, on
\* every computation path: seasonal model, measured table, fixed-time
\* fallback and the simple sinusoid.
C14_ProxyRange ==
    Cleanup =>
        /\ \A k \in 1..Len(sine_values) :
             /\ RLe(RInt(0), sine_values[k])
             /\ RLe(sine_values[k], RInt(args.sine_range))
        /\ (pc = "read") =>
             /\ \A d \in DaysOfYear : \A m \in HourMarks :
                  InSineRange(RealisticSine(Stamp(d, m), args.sine_range), args.sine_range)
             /\ \A m \in 0..(24 * 60 - 1) :
                  /\ InSineRange(FallbackSine(Stamp(1, m), args.sine_range), args.sine_range)
                  /\ InSineRange(SimpleSine(HourOf(Stamp(1, m)), args.sine_range),
                                 args.sine_range)
                  /\ InSineRange(TableSine(Stamp(172, m), ExtractSolarData(
                                     RawFile(TRUE, <<>>)).rows[1], args.sine_range),
                                 args.sine_range)

C14_Witness ==
    /\ SimpleMode
    /\ pc = "done"
    /\ args.sine_range = 6
    /\ Len(sine_values) = 2
    /\ sine_values[1] = RInt(args.sine_range)
    /\ sine_values[2] = RInt(0)

\* the table row of the date of ts (the date has one)
TableRow(ts) == solar_data.rows[CHOOSE k \in 1..Len(solar_data.rows) :
                                  solar_data.rows[k].date = ts.date]

\* C15: in every timing mode the proxy value is sine_range at that mode's
\* solar noon and 0 twelve hours away: at the minute nearest to the seasonal
\* solar noon in the seasonal model, at the table's solar noon in the
\* measured-table model, and at clock noon 12:00 (0 at 00:00) in the
\* fixed-time fallback and in the simple hour-based sinusoid.
C15_PeakAtNoon ==
    (Cleanup /\ df_loaded) =>
        \A k \in 1..Len(sine_values) :
            LET ts == df[k]
                top == RInt(args.sine_range)
            IN  IF Seasonal
                THEN /\ 2 * Abs(HoursFromSolarNoon(ts)) <= Micro => sine_values[k] = top
                     /\ 2 * (12 * 60 * Micro - Abs(HoursFromSolarNoon(ts))) <= Micro =>
                           sine_values[k] = RInt(0)
                ELSE IF Measured /\ ts.date \in TableDates
                THEN /\ Instant(ts) = TableRow(ts).solar_noon => sine_values[k] = top
                     /\ Abs(Instant(ts) - TableRow(ts).solar_noon) = 12 * 60 =>
                           sine_values[k] = RInt(0)
                ELSE /\ ts.minute = 12 * 60 => sine_values[k] = top
                     /\ ts.minute = 0 => sine_values[k] = RInt(0)

\* C16: for day_of_year 172 and longitude -122.02 the solar-noon offset lies
\* within [5, 15] minutes, and computing it again with the same arguments
\* gives the same value.
C16_SummerOffset ==
    (Seasonal /\ \E k \in 1..Len(sine_values) : df[k].date = 172) =>
        LET offset == SolarNoonOffset(172, -12202)
        IN  /\ 5 * Micro <= offset
            /\ offset <= 15 * Micro
            /\ \A k \in 1..Len(sine_values) :
                 df[k].date = 172 => SolarNoonOffset(df[k].date, DefaultLongitude) = offset

\* hour - solar_noon_hour before the wrapping step, in minutes (millionths)
RawHoursFromSolarNoon(ts) ==
    (ts.minute - 12 * 60) * Micro - SolarNoonOffset(ts.date, DefaultLongitude)

WithinHalfDay(h) == -(12 * 60 * Micro) <= h /\ h <= 12 * 60 * Micro

\* C17: in the seasonal model, for every time of day and every solar-noon
\* offset of a day of the year 1..366, hours_from_solar_noon after the single
\* wrapping step lies within [-12, 12].
C17_WrappedHours ==
    Cleanup =>
        /\ Seasonal => \A k \in 1..Len(sine_values) :
                          WithinHalfDay(HoursFromSolarNoon(df[k]))
        /\ (pc = "read") =>
             \A d \in DaysOfYear : \A m \in HourMarks :
                 WithinHalfDay(HoursFromSolarNoon(Stamp(d, m)))

C17_Witness ==
    /\ Seasonal
    /\ pc = "done"
    /\ Len(sine_values) = 2
    /\ RawHoursFromSolarNoon(df[1]) > 12 * 60 * Micro
    /\ RawHoursFromSolarNoon(df[2]) < -(12 * 60 * Micro)
    /\ HoursFromSolarNoon(df[1]) < 0
    /\ HoursFromSolarNoon(df[2]) > 0

\* C18: the three channels are filled in lock-step in input order: after k
\* samples the clarity and the cyclical channel hold k notes each and the
\* event channel at most k; the m-th note of a channel is the note of the
\* m-th sample that has one on that channel; all notes of a sample carry the
\* same start beat.
C18_LockStep ==
    (Midi /\ midi_created) =>
        LET fi == FlaggedIdx(csv_file.rows, i)
        IN  /\ i \in 0..Len(df)
            /\ Len(tracks[0]) = i
            /\ Len(tracks[1]) = i
            /\ Len(tracks[2]) <= i
            /\ Len(tracks[2]) = Len(fi)
            /\ \A k \in 1..i :
                 /\ tracks[0][k].pitch =
                      PyIndex(major_pentatonic, CloudNoteIdx(cloud_data[k]))
                 /\ tracks[0][k].volume = CloudVelocity(cloud_data[k])
                 /\ tracks[1][k].pitch =
                      PyIndex(minor_pentatonic, SolarNoteIdx(solar_data[k]))
                 /\ tracks[1][k].volume = SolarVelocity(solar_data[k])
                 /\ tracks[1][k].time = tracks[0][k].time
            /\ \A m \in 1..Len(fi) :
                 /\ tracks[2][m].time = tracks[0][fi[m]].time
                 /\ tracks[2][m].volume = IF sunrise_events[fi[m]] THEN 100 ELSE 80
            /\ \A m \in 1..(Len(fi) - 1) : fi[m] < fi[m + 1]

C18_Witness ==
    /\ Midi
    /\ pc = "done"
    /\ Len(df) = 2
    /\ csv_file.rows[1] # csv_file.rows[2]
    /\ tracks[0][1].pitch # tracks[0][2].pitch
    /\ tracks[1][1].pitch # tracks[1][2].pitch
    /\ ~Flagged(csv_file.rows[1])
    /\ Len(tracks[2]) = 1
    /\ tracks[2][1].time = tracks[0][2].time
    /\ tracks[0][1].time # tracks[0][2].time

\* the sine ranges the cleanup step accepts
SineRanges == {a.sine_range : a \in {b \in CleanupArgs : CleanupArgError(b) = "none"}}

\* the input file can be the output of a cleanup run with sine range R: its
\* solar_sine values lie within [0, R]
ProducedUnder(R) ==
    \A k \in 1..Len(csv_file.rows) :
        LET cell == csv_file.rows[k].solar
        IN  ~cell.isna => (RLe(RInt(0), cell.v) /\ RLe(cell.v, RInt(R)))

\* C19: the cyclical channel is normalized and quantized against the sine
\* range R the input was cleaned with: a proxy value v of [0, R] is mapped to
\* scale index floor((v / R) * (len(scale) - 1)) and to velocity
\* 40 + (v / R) * 40, and only v = R reaches the last scale entry.
C19_ConfiguredRange ==
    (Midi /\ midi_created /\ i >= 1 /\ error # "IndexError") =>
        \A R \in SineRanges :
            (ProducedUnder(R) /\ ~csv_file.rows[i].solar.isna) =>
                LET v == csv_file.rows[i].solar.v
                    last == Len(minor_pentatonic) - 1
                    idx == Floor(RMul(RDiv(v, RInt(R)), RInt(last)))
                IN  /\ solar_note_idx = idx
                    /\ tracks[1][i].pitch = minor_pentatonic[idx + 1]
                    /\ tracks[1][i].volume =
                         Floor(RAdd(RInt(40), RMul(RDiv(v, RInt(R)), RInt(40))))
                    /\ (solar_note_idx = last) <=> (v = RInt(R))

\* a configuration the command line accepts: bpm in 60..240 and either
\* auto_duration or duration in 60..600
Accepted ==
    /\ args.bpm \in MinBpm..MaxBpm
    /\ args.auto_duration \/ args.duration \in MinDuration..MaxDuration

\* C20: for every non-empty input and every accepted configuration the
\* effective duration and the beat increment are strictly positive, every
\* emitted note lasts 0.8, 0.7 or 1.2 times the beat increment, which is
\* more than nothing, and the start beats strictly increase from one sample
\* to the next.
C20_PositiveTiming ==
    (AfterTiming /\ Accepted /\ Len(df) >= 1) =>
        /\ duration > 0
        /\ RLt(RInt(0), beats_per_note)
        /\ \A k \in 1..Len(tracks[0]) :
             /\ tracks[0][k].duration = RMul(beats_per_note, Rat(8, 10))
             /\ RLt(RInt(0), tracks[0][k].duration)
        /\ \A k \in 1..Len(tracks[1]) :
             /\ tracks[1][k].duration = RMul(beats_per_note, Rat(7, 10))
             /\ RLt(RInt(0), tracks[1][k].duration)
        /\ \A k \in 1..Len(tracks[2]) :
             /\ tracks[2][k].duration = RMul(beats_per_note, Rat(12, 10))
             /\ RLt(RInt(0), tracks[2][k].duration)
        /\ \A t \in TrackIds : \A k \in 1..(Len(tracks[t]) - 1) :
             RLt(tracks[t][k].time, tracks[t][k + 1].time)

====
